---- MODULE Spec2Model ----
(***************************************************************************)
(* Model of enthought/mayavi/core/adder_node.py: the tree-editor "adder"   *)
(* nodes.  One EngineAdderNode with its three child adders is modelled,    *)
(* together with two engines whose current_selection it may listen to,    *)
(* the class-level Mutable.attr, and the traits change-notification rule   *)
(* (a handler runs only when the assigned value differs from the old one). *)
(***************************************************************************)
EXTENDS Integers, Sequences, FiniteSets, TLC

VARIABLES
    engine,             \* EngineAdderNode.engine
    current_selection,  \* engine -> its current_selection trait
    listeners,          \* engines on which _change_object is registered
    object,             \* EngineAdderNode.object
    adder_node,         \* EngineAdderNode.adder_node (a key of adders)
    label,              \* EngineAdderNode.label
    childObject,        \* node -> the object trait of the five child nodes
    items_list,         \* list node -> its items_list
    MutableAttr,        \* Mutable.attr
    callLog,            \* calls made on helpers / lists by the last operation
    exc,                \* exception raised by the last operation ("" if none)
    sceneRead,          \* outcome of the last read of a scene property
    adderNodeChanged,   \* history: _adder_node_changed has run at least once
    lastListObject,     \* history: last non-None value a list node changed to
    lastOp,             \* history: the last operation and what it was applied to
    replaced            \* history: an attached engine was replaced by another

vars == <<engine, current_selection, listeners, object, adder_node, label,
          childObject, items_list, MutableAttr, callLog, exc, sceneRead,
          adderNodeChanged, lastListObject, lastOp, replaced>>

----------------------------------------------------------------------------
(* Bounds *)

\* Number of pipeline objects that can be selected or assigned.
NObjects == 4

----------------------------------------------------------------------------
(* Values *)

None == <<"None", 0>>
Self == <<"EngineAdderNode", 0>>
Engines == {<<"Engine", 1>>, <<"Engine", 2>>}
PipelineObjects == {<<"Object", i>> : i \in 1..NObjects}
Values == {None, Self} \cup Engines \cup PipelineObjects

\* Classes of the pipeline objects, repeated cyclically over the objects.
ObjectClasses == <<"Scene", "Source", "ModuleManager", "Module", "Base">>

ClassOf(v) ==
    IF v = None THEN "NoneType"
    ELSE IF v = Self THEN "EngineAdderNode"
    ELSE IF v = <<"Engine", 1>> THEN "Engine"
    ELSE IF v = <<"Engine", 2>> THEN "OffScreenEngine"
    ELSE ObjectClasses[((v[2] - 1) % Len(ObjectClasses)) + 1]

\* The classes a class is an instance of (itself and its bases).
Bases(c) ==
    CASE c = "OffScreenEngine" -> {"OffScreenEngine", "Engine"}
      [] c = "EngineAdderNode" -> {"EngineAdderNode", "AdderNode"}
      [] c \in {"Scene", "Source", "ModuleManager", "Module"} -> {c, "Base"}
      [] OTHER -> {c}

isinstance(v, c) == c \in Bases(ClassOf(v))

hasattr_module_manager(v) == ClassOf(v) = "Module"

----------------------------------------------------------------------------
(* The registry and the menu helpers *)

registry_sources ==
    << [id |-> "ParametricSurface", menu_name |-> <<"&", "P", "S">>,
        help |-> "parametric surface", extensions |-> <<>>],
       [id |-> "VTKFileReader", menu_name |-> <<"V", "&", "F">>,
        help |-> "read a file", extensions |-> <<"vtk">>],
       [id |-> "PointLoad", menu_name |-> <<"P", "&", "L", "&">>,
        help |-> "point load", extensions |-> <<>>] >>

registry_modules ==
    << [id |-> "Outline", menu_name |-> <<"&", "O", "u", "t">>,
        help |-> "draw an outline"],
       [id |-> "Surface", menu_name |-> <<"S", "&", "u", "&", "r">>,
        help |-> "draw a surface"] >>

registry_filters ==
    << [id |-> "Threshold", menu_name |-> <<"T", "h", "&", "r">>,
        help |-> "threshold the data"],
       [id |-> "Contour", menu_name |-> <<"C", "o", "n">>,
        help |-> "contour the data"] >>

\* What menu_helper.check_<id> is for an object of a class: "missing" when
\* the helper has no such attribute, else the value the call returns.
HelperCheck(v, id) ==
    LET c == ClassOf(v) IN
    CASE c = "Scene" -> "missing"
      [] c = "Source" ->
            (CASE id = "Outline" -> "True" [] id = "Surface" -> "1"
               [] id = "Threshold" -> "False" [] OTHER -> "missing")
      [] c = "ModuleManager" ->
            (CASE id = "Outline" -> "0" [] id = "Surface" -> "True"
               [] id = "Threshold" -> "missing" [] OTHER -> "None")
      [] c = "Module" ->
            (CASE id = "Outline" -> "missing" [] id = "Surface" -> "False"
               [] id = "Threshold" -> "True" [] OTHER -> "1")
      [] OTHER -> "True"

\* Python truth value of what a check returns.
Truthy(r) == r \in {"True", "1"}

\* str.replace(old, '') on a string held as a sequence of characters.
replace(name, old) == SelectSeq(name, LAMBDA ch : ch # old)

----------------------------------------------------------------------------
(* The nodes *)

\* The keys of EngineAdderNode.adders, and the nodes behind them.
AdderKeys == {"scene", "source", "module-filter"}
ListNodes == {"source", "filters", "modules"}
ChildNodes == AdderKeys \cup {"filters", "modules"}

\* The class-level label of each node.
NodeLabel(n) ==
    CASE n = "source" -> "Add Data Source"
      [] n = "module-filter" -> "Add module or filter"
      [] n = "engine-adder" -> "Add a new Scene"
      [] OTHER -> "Base AdderNode"

\* The class-level items_list_source of each list node.
HasNoExtensions(source) == Len(source.extensions) = 0

items_list_source(n) ==
    CASE n = "source" -> SelectSeq(registry_sources, HasNoExtensions)
      [] n = "modules" -> registry_modules
      [] n = "filters" -> registry_filters

\* The traits an AdderNode instance answers to.
AdderNodeTraits == {"label", "tooltip", "object", "scene", "_icon", "view"}

\* The program state as one record, threaded through nested handlers.
State ==
    [engine |-> engine, current_selection |-> current_selection,
     listeners |-> listeners, object |-> object, adder_node |-> adder_node,
     label |-> label, childObject |-> childObject, items_list |-> items_list,
     MutableAttr |-> MutableAttr, callLog |-> callLog, exc |-> exc]

Called(s, what, n, id) == [s EXCEPT !.callLog = Append(@, <<what, n, id>>)]

----------------------------------------------------------------------------
(* ListAdderNode and its subclasses *)

hasattr_check(obj, id) == HelperCheck(obj, id) # "missing"

\* getattr(object.menu_helper, 'check_<id>')()
call_check(obj, id) ==
    IF HelperCheck(obj, id) = "missing" THEN "AttributeError"
    ELSE HelperCheck(obj, id)

\* Variant: the check is called without testing that it exists.
ListAdderNode_is_action_suitable_unguarded(obj, src) ==
    IF call_check(obj, src.id) = "AttributeError" THEN "AttributeError"
    ELSE IF Truthy(call_check(obj, src.id)) THEN "True" ELSE "False"

ListAdderNode_is_action_suitable(obj, src) ==
    IF hasattr_check(obj, src.id)
    THEN (IF call_check(obj, src.id) = "AttributeError" THEN "AttributeError"
          ELSE IF Truthy(call_check(obj, src.id)) THEN "True" ELSE "False")
    ELSE "False"

SourceAdderNode_is_action_suitable(obj, src) == "True"

is_action_suitable(n, obj, src) ==
    IF n = "source" THEN SourceAdderNode_is_action_suitable(obj, src)
    ELSE ListAdderNode_is_action_suitable(obj, src)

DocumentedItem(name, enabled, documentation, id, obj) ==
    [name |-> name, enabled |-> enabled, documentation |-> documentation,
     id |-> id, object |-> obj]

\* Variant: the row is enabled whatever the check says.
MakeItem_enabled(value, src, enabled) ==
    DocumentedItem(replace(src.menu_name, "&"), TRUE, src.help, src.id,
                   value)

\* The row built for one registry entry.
MakeItem(value, src, enabled) ==
    DocumentedItem(replace(src.menu_name, "&"), enabled, src.help, src.id,
                   value)

\* Variant: the rows are appended to the list already displayed.
NewResult_appending(s, n) == s.items_list[n]

\* The list the rows are appended to.
NewResult(s, n) == <<>>

\* The loop over items_list_source; it stops at the first exception.
RECURSIVE BuildItems(_, _, _, _)
BuildItems(n, value, srcs, acc) ==
    IF srcs = <<>> THEN acc
    ELSE LET src == Head(srcs)
             en == is_action_suitable(n, value, src)
             log == Append(acc.log, <<"_is_action_suitable", n, src.id>>)
         IN IF en = "AttributeError"
            THEN [acc EXCEPT !.log = log, !.exc = en]
            ELSE BuildItems(n, value, Tail(srcs),
                     [acc EXCEPT !.log = log,
                        !.result = Append(@, MakeItem(value, src, en = "True"))])

\* Variant: the hand-off to Mutable.attr is left out.
SetMutableAttr_skipped(s, value) == s

\* Mutable.attr = value
SetMutableAttr(s, value) == [s EXCEPT !.MutableAttr = value]

ListAdderNode_object_changed(s, n, value) ==
    IF value # None
    THEN LET s1 == SetMutableAttr(Called(s, "menu_helper.actions", n, ""),
                                  value)
             b == BuildItems(n, value, items_list_source(n),
                     [result |-> NewResult(s, n), log |-> <<>>, exc |-> ""])
             s2 == [s1 EXCEPT !.callLog = @ \o b.log]
         IN IF b.exc # "" THEN [s2 EXCEPT !.exc = b.exc]
            ELSE [Called(s2, "items_list", n, "")
                     EXCEPT !.items_list[n] = b.result]
    ELSE [Called(s, "items_list", n, "")
             EXCEPT !.items_list[n] = NewResult(s, n)]

\* Variant: the filter actions are built after the list is rebuilt.
ModuleAdderNode_object_changed_late(s, value) ==
    LET s1 == ListAdderNode_object_changed(s, "modules", value)
    IN IF value # None
       THEN Called(s1, "_build_filter_actions", "modules", "")
       ELSE s1

ModuleAdderNode_object_changed(s, value) ==
    LET s1 == IF value # None
              THEN Called(s, "_build_filter_actions", "modules", "")
              ELSE s
    IN ListAdderNode_object_changed(s1, "modules", value)

\* Assignment to the object trait of a list node: the handler runs only
\* when the value changes.
SetListObject(s, n, value) ==
    IF s.childObject[n] = value THEN s
    ELSE LET s1 == [s EXCEPT !.childObject[n] = value]
         IN IF n = "modules" THEN ModuleAdderNode_object_changed(s1, value)
            ELSE ListAdderNode_object_changed(s1, n, value)

ModuleFilterAdderNode_object_changed(s) ==
    LET s1 == SetListObject(s, "filters", s.childObject["module-filter"])
    IN SetListObject(s1, "modules", s1.childObject["module-filter"])

\* Assignment to the object trait of one of the three adders.
SetAdderObject(s, k, value) ==
    IF s.childObject[k] = value THEN s
    ELSE LET s1 == [s EXCEPT !.childObject[k] = value]
         IN CASE k = "scene" -> s1
              [] k = "source" -> ListAdderNode_object_changed(s1, k, value)
              [] k = "module-filter" ->
                    ModuleFilterAdderNode_object_changed(s1)

----------------------------------------------------------------------------
(* AdderNode.scene *)

\* The scene attribute of a pipeline object or engine.
ObjectScene(v) ==
    IF v \in PipelineObjects THEN <<"scene", v[2]>>
    ELSE <<"engine-scene", v[2]>>

NodeObject(s, n) == IF n = "engine-adder" THEN s.object ELSE s.childObject[n]

\* The attribute _get_scene reads from self.
SceneGetterAttribute == "obj"

AdderNode_get_scene(s, n) ==
    IF SceneGetterAttribute \notin AdderNodeTraits
    THEN [raised |-> "AttributeError", value |-> None]
    ELSE LET obj == NodeObject(s, n)
         IN IF isinstance(obj, "AdderNode")
            THEN [raised |-> "", value |-> None]
            ELSE IF obj # None
            THEN [raised |-> "", value |-> ObjectScene(obj)]
            ELSE [raised |-> "", value |-> None]

----------------------------------------------------------------------------
(* EngineAdderNode *)

\* Variant: the label is not copied from the new adder.
EngineAdderNode_adder_node_changed_nolabel(s, new) == s

EngineAdderNode_adder_node_changed(s, new) ==
    [s EXCEPT !.label = NodeLabel(new)]

\* Assignment to adder_node; the default value is adders['scene'].
SetAdderNode(s, k) ==
    IF s.adder_node = k THEN s
    ELSE EngineAdderNode_adder_node_changed([s EXCEPT !.adder_node = k], k)

\* The object the dispatch looks at.
EffectiveObject(old, new) == IF new = Self THEN old ELSE new

\* self.engine.__class__
EngineClass(s) == ClassOf(s.engine)

\* Variant: the ModuleManager test is left out.
ChooseAdder_no_module_manager(s, obj) ==
    IF isinstance(obj, EngineClass(s)) THEN "scene"
    ELSE IF isinstance(obj, "Scene") THEN "source"
    ELSE IF isinstance(obj, "Source") \/ hasattr_module_manager(obj)
    THEN "module-filter"
    ELSE "scene"

ChooseAdder(s, obj) ==
    IF isinstance(obj, EngineClass(s)) THEN "scene"
    ELSE IF isinstance(obj, "Scene") THEN "source"
    ELSE IF isinstance(obj, "Source") \/ isinstance(obj, "ModuleManager")
            \/ hasattr_module_manager(obj) THEN "module-filter"
    ELSE "scene"

\* Variant: the engine is not substituted for None.
AdderTarget_no_engine(s, obj) == obj

\* The object handed to the chosen adder.
AdderTarget(s, obj) == IF obj = None THEN s.engine ELSE obj

EngineAdderNode_object_changed(s, old, new) ==
    LET obj == EffectiveObject(old, new)
        s1 == SetAdderNode(s, ChooseAdder(s, obj))
    IN SetAdderObject(s1, s1.adder_node, AdderTarget(s1, obj))

\* Assignment to EngineAdderNode.object.
SetObject(s, value) ==
    IF s.object = value THEN s
    ELSE EngineAdderNode_object_changed([s EXCEPT !.object = value],
                                        s.object, value)

EngineAdderNode_change_object(s, value) == SetObject(s, value)

\* Variant: the listener on the old engine is kept.
RemoveListener_kept(s, old) == s

\* old.on_trait_change(self._change_object, 'current_selection', remove=True)
RemoveListener(s, old) ==
    IF old # None THEN [s EXCEPT !.listeners = @ \ {old}] ELSE s

EngineAdderNode_engine_changed(s, old, new) ==
    LET s1 == RemoveListener(s, old)
        s2 == [s1 EXCEPT !.listeners = @ \cup {new}]
        s3 == SetObject(s2, s2.current_selection[new])
    IN IF s3.object = None
       THEN SetAdderObject(s3, s3.adder_node, new)
       ELSE s3

----------------------------------------------------------------------------
(* Operations *)

NotRead == [node |-> "", raised |-> "", value |-> None]

\* The state an operation starts from: the records of the last one cleared.
Fresh == [State EXCEPT !.callLog = <<>>, !.exc = ""]

ChangedListValues(s) ==
    {s.childObject[n] : n \in {m \in ListNodes :
        s.childObject[m] # childObject[m] /\ s.childObject[m] # None}}

\* The variables after operation op that leaves the program in state s.
Becomes(s, read, op) ==
    /\ engine' = s.engine
    /\ current_selection' = s.current_selection
    /\ listeners' = s.listeners
    /\ object' = s.object
    /\ adder_node' = s.adder_node
    /\ label' = s.label
    /\ childObject' = s.childObject
    /\ items_list' = s.items_list
    /\ MutableAttr' = s.MutableAttr
    /\ callLog' = s.callLog
    /\ exc' = s.exc
    /\ sceneRead' = read
    /\ adderNodeChanged' = (adderNodeChanged \/ s.adder_node # adder_node)
    /\ lastListObject' =
          IF ChangedListValues(s) # {}
          THEN CHOOSE v \in ChangedListValues(s) : TRUE
          ELSE lastListObject
    /\ lastOp' = op
    /\ replaced' = (replaced \/ (engine # None /\ s.engine # engine))

\* node.engine = e
SetEngine(e) ==
    /\ e # engine
    /\ Becomes(EngineAdderNode_engine_changed([Fresh EXCEPT !.engine = e],
                                              engine, e),
               NotRead, <<"SetEngine", e>>)

\* e.current_selection = v
Select(e, v) ==
    /\ v # current_selection[e]
    /\ LET s == [Fresh EXCEPT !.current_selection[e] = v]
       IN Becomes(IF e \in s.listeners
                  THEN EngineAdderNode_change_object(s, v) ELSE s,
                  NotRead, <<"Select", e>>)

\* node.object = v, by the node's owner before it attaches an engine; once
\* an engine is attached the object is written by the listener alone.
AssignObject(v) ==
    /\ engine = None
    /\ v # object
    /\ Becomes(SetObject(Fresh, v), NotRead, <<"AssignObject", Self>>)

\* node.adders[k].object = v
AssignAdder(k, v) ==
    /\ v # childObject[k]
    /\ Becomes(SetAdderObject(Fresh, k, v), NotRead, <<"AssignAdder", None>>)

\* node.adders['module-filter'].filters.object = v, and the same of modules
AssignList(n, v) ==
    /\ v # childObject[n]
    /\ Becomes(SetListObject(Fresh, n, v), NotRead, <<"AssignList", None>>)

\* n.scene
ReadScene(n) ==
    /\ n \in ChildNodes \cup {"engine-adder"}
    /\ LET r == AdderNode_get_scene(State, n)
       IN Becomes(Fresh, [node |-> n, raised |-> r.raised, value |-> r.value],
                  <<"ReadScene", None>>)

Init ==
    /\ engine = None
    /\ current_selection = [e \in Engines |-> None]
    /\ listeners = {}
    /\ object = None
    /\ adder_node = "scene"
    /\ label = NodeLabel("engine-adder")
    /\ childObject = [n \in ChildNodes |-> None]
    /\ items_list = [n \in ListNodes |-> <<>>]
    /\ MutableAttr = None
    /\ callLog = <<>>
    /\ exc = ""
    /\ sceneRead = NotRead
    /\ adderNodeChanged = FALSE
    /\ lastListObject = None
    /\ lastOp = <<"", None>>
    /\ replaced = FALSE

\* The EngineAdderNode driven by its engines.
Next ==
    \/ \E e \in Engines : SetEngine(e)
    \/ \E e \in Engines, v \in Values : Select(e, v)
    \/ \E v \in Values : AssignObject(v)

Spec == Init /\ [][Next]_vars

\* The child adders assigned to directly, and their scene property read.
NextList ==
    \/ \E k \in {"source", "module-filter"},
          v \in PipelineObjects \cup {None} : AssignAdder(k, v)
    \/ \E n \in {"filters", "modules"},
          v \in PipelineObjects \cup {None} : AssignList(n, v)
    \/ \E n \in ChildNodes \cup {"engine-adder"} : ReadScene(n)

SpecList == Init /\ [][NextList]_vars

----------------------------------------------------------------------------
(* Properties *)

E1 == <<"Engine", 1>>
E2 == <<"Engine", 2>>

\* The adder for each kind of object, for a node whose engine is eng.
ExpectedAdder(eng, obj) ==
    IF eng # None /\ ClassOf(eng) \in Bases(ClassOf(obj)) THEN "scene"
    ELSE CASE ClassOf(obj) = "Scene" -> "source"
           [] ClassOf(obj) \in {"Source", "ModuleManager", "Module"} ->
                 "module-filter"
           [] OTHER -> "scene"

\* The object a change of EngineAdderNode.object from old to new acts on.
ExpectedEffective(old, new) == IF new = Self THEN old ELSE new

\* C1: after every change of EngineAdderNode.object the adder_node is the
\* adder for the type of the effective object, and adder_node is
\* always one of the three entries of adders.
C1_AdderChosenByType ==
    /\ [](adder_node \in AdderKeys)
    /\ [][object' # object =>
            adder_node' = ExpectedAdder(engine', ExpectedEffective(object, object'))
         ]_vars

\* The node itself was selected after a module, and the module-filter adder
\* stayed active.
C1_Witness ==
    /\ object = Self
    /\ adder_node = "module-filter"
    /\ ClassOf(childObject["module-filter"]) = "Module"

Ids(rows) == [i \in 1..Len(rows) |-> rows[i].id]

\* Whether the action of a registry entry applies to the object of node n.
Applicable(n, obj, src) ==
    \/ n = "source"
    \/ HelperCheck(obj, src.id) \in {"True", "1"}

\* C2 as stated: after a change to a non-None object the items_list is the
\* registry list with the entries that do not apply to the object left out.
C2_ListIsFilteredRegistry ==
    \A n \in ListNodes :
        childObject[n] # None =>
            Ids(items_list[n]) =
                Ids(SelectSeq(items_list_source(n),
                              LAMBDA src : Applicable(n, childObject[n], src)))

\* C2 amended: the items_list keeps a row for every registry entry, in
\* registry order, and the rows that are enabled are the registry list
\* filtered by applicability.
C2_EnabledRowsAreFilteredRegistry ==
    \A n \in ListNodes :
        childObject[n] # None =>
            /\ Ids(items_list[n]) = Ids(items_list_source(n))
            /\ Ids(SelectSeq(items_list[n], LAMBDA row : row.enabled)) =
                Ids(SelectSeq(items_list_source(n),
                              LAMBDA src : Applicable(n, childObject[n], src)))

\* The module list of a module manager: both modules shown, one enabled and
\* one disabled.
C2_Witness ==
    /\ ClassOf(childObject["modules"]) = "ModuleManager"
    /\ Len(items_list["modules"]) = Len(registry_modules)
    /\ \E i \in 1..Len(items_list["modules"]) :
          ~items_list["modules"][i].enabled
    /\ \E i \in 1..Len(items_list["modules"]) :
          items_list["modules"][i].enabled

\* C3: a row of a filter or module list is enabled exactly when the helper
\* has check_<id> and the call returns a true value, a missing check_<id>
\* raises nothing, and every row of the source list is enabled.
C3_EnabledIffCheckPasses ==
    /\ exc = ""
    /\ \A n \in ListNodes :
          childObject[n] # None =>
              \A i \in 1..Len(items_list[n]) :
                  LET row == items_list[n][i]
                      check == HelperCheck(childObject[n], row.id)
                  IN IF n = "source" THEN row.enabled
                     ELSE row.enabled <=>
                             (check # "missing" /\ check \in {"True", "1"})

\* A source object in the filter list: check_Contour is missing, the row is
\* there and disabled.
C3_Witness ==
    /\ ClassOf(childObject["filters"]) = "Source"
    /\ Len(items_list["filters"]) = Len(registry_filters)
    /\ HelperCheck(childObject["filters"], "Contour") = "missing"
    /\ \E i \in 1..Len(items_list["filters"]) :
          /\ items_list["filters"][i].id = "Contour"
          /\ ~items_list["filters"][i].enabled

\* C4: with an engine attached the node's object is the engine's
\* current_selection and the engine is the only one listened to; a change of
\* the current_selection of any other engine leaves the node's object alone.
C4_ObjectFollowsEngine ==
    /\ [](engine # None =>
            object = current_selection[engine] /\ listeners = {engine})
    /\ [][\A e \in Engines :
            (e # engine' /\ current_selection'[e] # current_selection[e])
                => object' = object]_vars

\* The replaced engine has just changed its selection, and the node still
\* shows the selection of the engine that replaced it.
C4_Witness ==
    /\ replaced
    /\ engine = E2
    /\ lastOp = <<"Select", E1>>
    /\ current_selection[E1] # current_selection[E2]
    /\ object = current_selection[E2]
    /\ object \in PipelineObjects

\* C5: reading scene raises nothing and gives None when the node's object is
\* None or an AdderNode, else the object's scene attribute.
C5_SceneReadNeverRaises ==
    sceneRead.node # "" =>
        LET obj == NodeObject(State, sceneRead.node)
        IN /\ sceneRead.raised = ""
           /\ sceneRead.value =
                 IF obj = None \/ "AdderNode" \in Bases(ClassOf(obj))
                 THEN None ELSE ObjectScene(obj)

\* A menu name with every '&' removed.
RECURSIVE StripAmpersands(_)
StripAmpersands(name) ==
    IF name = <<>> THEN <<>>
    ELSE IF Head(name) = "&" THEN StripAmpersands(Tail(name))
    ELSE <<Head(name)>> \o StripAmpersands(Tail(name))

\* C6: the items_list of a list node is empty when its object is None, and
\* otherwise has one row per entry of items_list_source, in order, with the
\* entry's id, its help, its menu_name without '&', and the current object.
C6_ListRebuiltFromScratch ==
    \A n \in ListNodes :
        IF childObject[n] = None THEN items_list[n] = <<>>
        ELSE /\ Len(items_list[n]) = Len(items_list_source(n))
             /\ \A i \in 1..Len(items_list[n]) :
                   LET row == items_list[n][i]
                       src == items_list_source(n)[i]
                   IN /\ row.id = src.id
                      /\ row.documentation = src.help
                      /\ row.name = StripAmpersands(src.menu_name)
                      /\ row.object = childObject[n]

\* The source list emptied again after it had rows, next to a module list
\* rebuilt for its second object.
C6_Witness ==
    /\ childObject["source"] = None
    /\ items_list["source"] = <<>>
    /\ lastListObject # None
    /\ childObject["modules"] \notin {None, childObject["filters"]}
    /\ childObject["filters"] # None
    /\ Len(items_list["modules"]) = Len(registry_modules)

\* C7: Mutable.attr is the last non-None value any list node's object
\* changed to, None if there was none.
C7_MutableAttrIsLastObject == MutableAttr = lastListObject

\* Every list node is back to None and Mutable.attr still holds an object.
C7_Witness ==
    /\ \A n \in ListNodes : childObject[n] = None
    /\ MutableAttr \in PipelineObjects

\* C8: after a change of the selection of a node with an engine, the active
\* adder's object is the new selection, or the previous one when the node
\* itself was selected, or the engine when that is None; it is neither None
\* nor the node itself.
C8_AdderObjectIsTarget ==
    [][(object' # object /\ engine' # None) =>
          LET eff == ExpectedEffective(object, object')
              target == IF eff = None THEN engine' ELSE eff
          IN /\ childObject'[adder_node'] = target
             /\ childObject'[adder_node'] \notin {None, Self}
      ]_vars

\* The selection was cleared on the attached engine while an object was
\* shown: the scene adder is active on the engine.
C8_Witness ==
    /\ engine # None
    /\ lastOp = <<"Select", engine>>
    /\ object = None
    /\ adder_node = "scene"
    /\ childObject["scene"] = engine
    /\ childObject["source"] # None

\* C9: once adder_node has changed, the node's label is the label of its
\* adder_node.
C9_LabelFollowsAdder ==
    adderNodeChanged => label = NodeLabel(adder_node)

\* The scene adder is active again after another adder was.
C9_Witness ==
    /\ adderNodeChanged
    /\ adder_node = "scene"
    /\ label = "Base AdderNode"

Positions(log, node, whats) ==
    {i \in 1..Len(log) : log[i][2] = node /\ log[i][1] \in whats}

AllCalls ==
    {"menu_helper.actions", "_build_filter_actions", "_is_action_suitable",
     "items_list"}

\* C10: after a change of the object of the module-filter adder its filters
\* and modules have that object, filters handled before modules; and when
\* the object of modules changes to a non-None value, _build_filter_actions
\* is called before the rows are rebuilt and before any suitability check.
C10_ChildrenFollowParent ==
    [][/\ childObject'["module-filter"] # childObject["module-filter"] =>
            /\ childObject'["filters"] = childObject'["module-filter"]
            /\ childObject'["modules"] = childObject'["module-filter"]
            /\ \A i \in Positions(callLog', "filters", AllCalls),
                  j \in Positions(callLog', "modules", AllCalls) : i < j
       /\ (/\ childObject'["modules"] # childObject["modules"]
           /\ childObject'["modules"] # None) =>
            /\ Positions(callLog', "modules", {"_build_filter_actions"}) # {}
            /\ Positions(callLog', "modules",
                         {"_is_action_suitable", "items_list"}) # {}
            /\ \A i \in Positions(callLog', "modules",
                                  {"_build_filter_actions"}),
                  j \in Positions(callLog', "modules",
                         {"menu_helper.actions", "_is_action_suitable",
                          "items_list"}) : i < j
      ]_vars

\* The module-filter adder has just taken an object: both lists were
\* rebuilt for it, the filter actions built first.
C10_Witness ==
    /\ lastOp[1] = "AssignAdder"
    /\ childObject["module-filter"] \in PipelineObjects
    /\ childObject["filters"] = childObject["module-filter"]
    /\ childObject["modules"] = childObject["module-filter"]
    /\ Positions(callLog, "filters", {"items_list"}) # {}
    /\ Positions(callLog, "modules", {"_build_filter_actions"}) # {}

====
